---- MODULE Spec2Model ----
(***************************************************************************)
(* Model of the chess bot's computer player (src/player.py) on top of the  *)
(* rules-engine wrapper (src/board.py).                                    *)
(*                                                                         *)
(* Text -- UCI moves, the service's reply, the fallback sentinel -- is a   *)
(* sequence of one-character strings, so that str.strip(), equality and    *)
(* Python's substring test are computed, not assumed.                     *)
(* A position of the rules engine is what the code reads from it: the      *)
(* side to move, the legal-move list, the move stack, and, per legal move, *)
(* the facts _evaluate_move asks python-chess for.                         *)
(***************************************************************************)
EXTENDS Integers, Sequences, FiniteSets, TLC

VARIABLES
    color,           \* ComputerPlayer.color
    skill_level,     \* ComputerPlayer.skill_level
    board,           \* ChessBoard.board: [turn, legal, stack]
    pc,              \* where ComputerPlayer.make_move stands
    legal_moves,     \* make_move's snapshot board_state['legal_moves']
    scored_moves,    \* _filter_moves_by_skill's scored_moves (sorted)
    filtered_moves,  \* _get_llm_move's filtered_moves
    payload,         \* the request _call_ollama_api posts
    http,            \* what the external service did with the request
    response,        \* _get_llm_move's response
    raised,          \* an exception reached _get_llm_move's handler
    move,            \* _get_llm_move's move (the parsed suggestion)
    roll,            \* the sample random.random() gave, in hundredths
    final_move,      \* what _get_llm_move returned
    draws,           \* the random.choice calls made: where, and from what
    invoked,         \* the stages make_move has called
    result,          \* what make_move returned
    undo,            \* chess.Board's stack of saved states, which pop() restores
    frame,           \* _evaluate_move's locals while a move is being evaluated
    learning_mode,   \* computer_player.learning_mode, once /learning-mode set it
    hint_level,      \* computer_player.hint_level, once /learning-mode set it
    last             \* the last request the application answered, and its answer

\* the state the scoring loop adds when it is followed statement by statement
evalVars == <<undo, frame>>

\* the state of the application around the board and the computer player
appVars == <<learning_mode, hint_level, last>>

vars == <<color, skill_level, board, pc, legal_moves, scored_moves,
          filtered_moves, payload, http, response, raised, move, roll,
          final_move, draws, invoked, result, evalVars, appVars>>

----------------------------------------------------------------------------
(* Bounds of the model *)

\* the longest legal-move list a modelled position has
MaxMoves == 4

\* the longest legal-move list the retained count is computed for
LongestCounted == 40

----------------------------------------------------------------------------
(* Sequences and text *)

Range(s) == {s[i] : i \in 1..Len(s)}

Max(a, b) == IF a >= b THEN a ELSE b

Min(a, b) == IF a <= b THEN a ELSE b

\* the sublist of s at the (increasing) indices in idx
RECURSIVE Pick(_, _, _)
Pick(s, idx, i) ==
    IF i > Len(s) THEN <<>>
    ELSE (IF i \in idx THEN <<s[i]>> ELSE <<>>) \o Pick(s, idx, i + 1)

Whitespace == {" ", "\n", "\t"}

RECURSIVE LStrip(_)
LStrip(t) ==
    IF t # <<>> /\ Head(t) \in Whitespace THEN LStrip(Tail(t)) ELSE t

RECURSIVE RStrip(_)
RStrip(t) ==
    IF t # <<>> /\ t[Len(t)] \in Whitespace
    THEN RStrip(SubSeq(t, 1, Len(t) - 1))
    ELSE t

\* str.strip()
Strip(t) == RStrip(LStrip(t))

\* Python's `pat in text` on strings
Contains(text, pat) ==
    \E i \in 0..(Len(text) - Len(pat)) :
        SubSeq(text, i + 1, i + Len(pat)) = pat

\* Python's `x in list`
InList(x, list) == \E i \in 1..Len(list) : list[i] = x

----------------------------------------------------------------------------
(* The rules engine's moves and what it reports about them *)

h5f7 == <<"h", "5", "f", "7">>
b1c3 == <<"b", "1", "c", "3">>
a2a3 == <<"a", "2", "a", "3">>
e2e4 == <<"e", "2", "e", "4">>
a2a4 == <<"a", "2", "a", "4">>

\* The moves of the model, in the order python-chess lists them (piece
\* moves from the highest square down, then pawn pushes), each with the
\* facts _evaluate_move reads: the piece standing on the destination after
\* the move, the piece captured, check and checkmate after the move, and how
\* many pieces of the mover's side (defenders) and of the other side
\* (attackers) attack the destination after the move.
Universe ==
    << [uci |-> h5f7, piece |-> "queen", captured |-> "pawn",
        check |-> TRUE, mate |-> TRUE, defenders |-> 1, attackers |-> 1],
       [uci |-> b1c3, piece |-> "knight", captured |-> "none",
        check |-> FALSE, mate |-> FALSE, defenders |-> 2, attackers |-> 0],
       [uci |-> a2a3, piece |-> "pawn", captured |-> "none",
        check |-> FALSE, mate |-> FALSE, defenders |-> 3, attackers |-> 0],
       [uci |-> e2e4, piece |-> "pawn", captured |-> "none",
        check |-> FALSE, mate |-> FALSE, defenders |-> 0, attackers |-> 0],
       [uci |-> a2a4, piece |-> "pawn", captured |-> "none",
        check |-> FALSE, mate |-> FALSE, defenders |-> 1, attackers |-> 0] >>

FactsOf(uci) == Universe[CHOOSE i \in 1..Len(Universe) : Universe[i].uci = uci]

UniverseMoves == [i \in 1..Len(Universe) |-> Universe[i].uci]

\* the legal-move lists the rules engine may report: sublists of the
\* universe, in its order, of at most MaxMoves moves (the empty list is a
\* finished game)
LegalMoveLists ==
    {Pick(UniverseMoves, idx, 1) :
        idx \in {s \in SUBSET (1..Len(Universe)) : Cardinality(s) <= MaxMoves}}

\* the legal moves of the starting position that the universe holds
StartLegalMoves == <<b1c3, a2a3, e2e4, a2a4>>

Other(side) == IF side = "white" THEN "black" ELSE "white"

\* chess.Board.push: the move goes on the stack, the turn passes, and the
\* rules engine has a new legal-move list
Push(b, m) ==
    {[turn |-> Other(b.turn), legal |-> l, stack |-> Append(b.stack, m)] :
        l \in LegalMoveLists}

----------------------------------------------------------------------------
(* ComputerPlayer.__init__ *)

\* self.skill_level = max(1, min(10, skill_level))
ClampSkill(requested) == Max(1, Min(10, requested))

----------------------------------------------------------------------------
(* ComputerPlayer._evaluate_move *)

PieceValue(piece) ==
    CASE piece = "pawn"   -> 1
      [] piece = "knight" -> 3
      [] piece = "bishop" -> 3
      [] piece = "rook"   -> 5
      [] piece = "queen"  -> 9
      [] OTHER            -> 0

\* chess.square_rank of the square whose rank character is ch
SquareRank(ch) ==
    CASE ch = "1" -> 0 [] ch = "2" -> 1 [] ch = "3" -> 2 [] ch = "4" -> 3
      [] ch = "5" -> 4 [] ch = "6" -> 5 [] ch = "7" -> 6 [] OTHER -> 7

ToSquare(uci) == SubSeq(uci, 3, 4)

CenterSquares == {<<"e", "4">>, <<"e", "5">>, <<"d", "4">>, <<"d", "5">>}

\* board.attackers(side, move.to_square) after the move, counted
AttackerCount(side, mover, facts) ==
    IF side = mover THEN facts.defenders ELSE facts.attackers

\* the values random.randint(-n, n) is sampled at
NoiseSamples(n) == {0 - n, 0, n}

\* the values 5 * random.uniform(0, 1) is sampled at
UniformFifths == {0, 4}

\* faulty variant: checkmate is rewarded like a strong check, with 100
EvaluateMoveSmallMateBonus(facts, mover, player_color, skill, rnd) ==
    LET capture == IF facts.captured # "none"
                   THEN PieceValue(facts.captured) * 10 ELSE 0
        check == IF facts.check THEN 15 ELSE 0
        mate == IF facts.mate THEN 100 ELSE 0
        hanging == IF AttackerCount(mover, mover, facts) > 0
                   THEN (IF skill < 5 THEN PieceValue(facts.piece) * rnd.fifths
                         ELSE PieceValue(facts.piece) * 5)
                   ELSE 0
        center == IF ToSquare(facts.uci) \in CenterSquares THEN 8 ELSE 0
        from_rank == SquareRank(facts.uci[2])
        development ==
            IF player_color = "black" /\ from_rank = 7 THEN 5
            ELSE IF player_color = "white" /\ from_rank = 0 THEN 5
            ELSE 0
    IN  50 + capture + check + mate - hanging + center + development
        + (IF skill < 8 THEN rnd.noise ELSE 0)

\* The score of the move with these facts, for the player of this colour and
\* skill, on a board where `mover` is to move.  rnd is the randomness it
\* consumes: noise is the randint added at the end, fifths is five times the
\* uniform factor of the hanging-piece penalty.  The board is pushed and
\* popped inside, so it is the same board afterwards.
EvaluateMove(facts, mover, player_color, skill, rnd) ==
    LET base == 50
        capture == IF facts.captured # "none"
                   THEN PieceValue(facts.captured) * 10 ELSE 0
        \* board.push(move): the turn passes to the other side
        turn == Other(mover)
        check == IF facts.check THEN 15 ELSE 0
        mate == IF facts.mate THEN 1000 ELSE 0
        piece_value == PieceValue(facts.piece)
        \* board.attackers(not board.turn, move.to_square)
        attackers == AttackerCount(Other(turn), mover, facts)
        hanging == IF attackers > 0
                   THEN (IF skill < 5 THEN piece_value * rnd.fifths
                         ELSE piece_value * 5)
                   ELSE 0
        center == IF ToSquare(facts.uci) \in CenterSquares THEN 8 ELSE 0
        from_rank == SquareRank(facts.uci[2])
        development ==
            IF player_color = "black" /\ from_rank = 7 THEN 5
            ELSE IF player_color = "white" /\ from_rank = 0 THEN 5
            ELSE 0
        randomness == IF skill < 5 THEN rnd.noise
                      ELSE IF skill < 8 THEN rnd.noise ELSE 0
    IN  base + capture + check + mate - hanging + center + development
        + randomness

\* what random draws an evaluation of this move can consume
Randomness(facts, mover, skill) ==
    {r \in [noise : IF skill < 5 THEN NoiseSamples(20)
                    ELSE IF skill < 8 THEN NoiseSamples(10) ELSE {0},
            fifths : UniformFifths] :
        (skill >= 5 \/ AttackerCount(mover, mover, facts) = 0)
            => r.fifths = 0}

----------------------------------------------------------------------------
(* ComputerPlayer._filter_moves_by_skill *)

\* one pass of the scoring loop: the move was scored, or its evaluation
\* raised and it got the neutral score, with the board as it was before the
\* pass (EvalSpec follows the loop statement by statement, and there a raise
\* between board.push and board.pop leaves the move on the board)
ScoreOutcomes(uci, mover, player_color, skill) ==
    {[move |-> uci, score |-> 50, failed |-> TRUE]}
    \cup {[move |-> uci,
           score |-> EvaluateMove(FactsOf(uci), mover, player_color, skill, r),
           failed |-> FALSE] : r \in Randomness(FactsOf(uci), mover, skill)}

\* faulty variant: the sort is ascending (reverse=True left out)
RECURSIVE InsertAsc(_, _)
InsertAsc(sorted, x) ==
    IF sorted = <<>> THEN <<x>>
    ELSE IF Head(sorted).score <= x.score
         THEN <<Head(sorted)>> \o InsertAsc(Tail(sorted), x)
         ELSE <<x>> \o sorted

\* list.sort(key=score, reverse=True): stable, so equal scores keep the
\* order of the legal-move list
RECURSIVE InsertDesc(_, _)
InsertDesc(sorted, x) ==
    IF sorted = <<>> THEN <<x>>
    ELSE IF Head(sorted).score >= x.score
         THEN <<Head(sorted)>> \o InsertDesc(Tail(sorted), x)
         ELSE <<x>> \o sorted

RECURSIVE SortDesc(_)
SortDesc(s) ==
    IF s = <<>> THEN <<>>
    ELSE InsertDesc(SortDesc(SubSeq(s, 1, Len(s) - 1)), s[Len(s)])

\* keep_percentage, in hundredths
KeepPercentage(skill) ==
    IF skill <= 3 THEN 40 ELSE IF skill <= 6 THEN 65 ELSE 80

\* faulty variant: no minimum of three
NumMovesNoMinimum(n, skill) == (n * KeepPercentage(skill)) \div 100

\* max(3, int(len(scored_moves) * keep_percentage))
NumMovesToKeep(n, skill) == Max(3, (n * KeepPercentage(skill)) \div 100)

\* faulty variant: a list of exactly three moves is scored and sorted
SeesAllMovesBelowThree(skill, legal) == skill >= 8 \/ Len(legal) < 3

\* the filter returns the list unchanged, without scoring
SeesAllMoves(skill, legal) == skill >= 8 \/ Len(legal) <= 3

\* the moves of scored_moves[:num_moves_to_keep]
Retained(sorted, skill) ==
    LET keep == Min(NumMovesToKeep(Len(sorted), skill), Len(sorted))
    IN  [i \in 1..keep |-> sorted[i].move]

\* every way the scoring loop can go over this legal-move list
RECURSIVE Scorings(_, _, _, _)
Scorings(legal, mover, player_color, skill) ==
    IF legal = <<>> THEN {<<>>}
    ELSE {<<o>> \o rest :
             o \in ScoreOutcomes(Head(legal), mover, player_color, skill),
             rest \in Scorings(Tail(legal), mover, player_color, skill)}

----------------------------------------------------------------------------
(* ComputerPlayer._call_ollama_api *)

FALLBACK_RANDOM_MOVE ==
    <<"F", "A", "L", "L", "B", "A", "C", "K", "_", "R", "A", "N", "D", "O",
      "M", "_", "M", "O", "V", "E">>

\* temperature = max(0.1, 1.0 - skill_level * 0.09), in hundredths
Temperature(skill) == Max(10, 100 - skill * 9)

\* top_p, in hundredths
TopP(skill) == IF skill < 5 THEN 85 ELSE 95

\* the texts the service is modelled to answer with: a candidate move and a
\* newline, two moves in a sentence (the later one of the list first), a text
\* that names no move
ReplyTexts ==
    { e2e4 \o <<"\n">>,
      a2a4 \o <<" ", "o", "r", " ">> \o a2a3,
      <<"r", "e", "s", "i", "g", "n">> }

\* What the service can do with a posted request.  A body that is not JSON
\* makes response.json() raise requests' JSONDecodeError, a
\* RequestException, in requests >= 2.27 and a plain ValueError before.
\* Nothing bounds the wait: requests.post is called without a timeout, so a
\* service that never answers is the request staying posted.
HttpOutcomes ==
    { [kind |-> k, text |-> <<>>] :
        k \in {"connection_error", "http_error", "not_json_request_exception",
               "not_json_value_error", "no_response_field"} }
    \cup { [kind |-> "ok", text |-> t] : t \in ReplyTexts }

\* the kinds the `except requests.exceptions.RequestException` clause catches
IsRequestException(kind) ==
    kind \in {"connection_error", "http_error", "not_json_request_exception"}

\* faulty variant: only a connection error is caught
CallCatchesConnectionError(h) ==
    IF h.kind = "ok" THEN [raised |-> FALSE, response |-> Strip(h.text)]
    ELSE IF h.kind = "connection_error"
         THEN [raised |-> FALSE, response |-> FALLBACK_RANDOM_MOVE]
         ELSE [raised |-> TRUE, response |-> <<>>]

\* what the call gives _get_llm_move: a text, the sentinel, or an exception
CallOllamaApi(h) ==
    IF h.kind = "ok" THEN [raised |-> FALSE, response |-> Strip(h.text)]
    ELSE IF IsRequestException(h.kind)
         THEN [raised |-> FALSE, response |-> FALLBACK_RANDOM_MOVE]
         ELSE [raised |-> TRUE, response |-> <<>>]

----------------------------------------------------------------------------
(* ComputerPlayer._parse_llm_response *)

\* the first move of the list that occurs in the text, or 0
RECURSIVE FirstContained(_, _, _)
FirstContained(text, list, i) ==
    IF i > Len(list) THEN 0
    ELSE IF Contains(text, list[i]) THEN i
    ELSE FirstContained(text, list, i + 1)

\* faulty variant: a reply that names no move of the list is returned as it is
ParseTrustsReply(resp, list) ==
    LET text == Strip(resp)
        random == {[move |-> list[i], pool |-> list] : i \in 1..Len(list)}
    IN  IF resp = FALLBACK_RANDOM_MOVE THEN random
        ELSE IF InList(text, list) THEN {[move |-> text, pool |-> <<>>]}
        ELSE IF FirstContained(text, list, 1) # 0
             THEN {[move |-> list[FirstContained(text, list, 1)],
                    pool |-> <<>>]}
        ELSE {[move |-> text, pool |-> <<>>]}

\* faulty variant: the scan returns the last move of the list that occurs in
\* the reply, not the first
ParseTakesLastContained(resp, list) ==
    LET text == Strip(resp)
        random == {[move |-> list[i], pool |-> list] : i \in 1..Len(list)}
        inside == {i \in 1..Len(list) : Contains(text, list[i])}
    IN  IF resp = FALLBACK_RANDOM_MOVE THEN random
        ELSE IF InList(text, list) THEN {[move |-> text, pool |-> <<>>]}
        ELSE IF inside # {}
             THEN {[move |-> list[CHOOSE i \in inside : \A j \in inside : j <= i],
                    pool |-> <<>>]}
        ELSE random

\* the moves the parse can return, each with the list random.choice drew it
\* from (<<>> when it drew nothing).  `list` is the parameter the code names
\* legal_moves.
ParseLlmResponse(resp, list) ==
    LET text == Strip(resp)
        random == {[move |-> list[i], pool |-> list] : i \in 1..Len(list)}
    IN  IF resp = FALLBACK_RANDOM_MOVE THEN random
        ELSE IF InList(text, list) THEN {[move |-> text, pool |-> <<>>]}
        ELSE IF FirstContained(text, list, 1) # 0
             THEN {[move |-> list[FirstContained(text, list, 1)],
                    pool |-> <<>>]}
        ELSE random

----------------------------------------------------------------------------
(* ComputerPlayer._select_move_by_skill *)

\* faulty variant: the steps of the table start one level late
MistakeChanceLate(skill) ==
    IF skill < 2 THEN 50
    ELSE IF skill < 4 THEN 35
    ELSE IF skill < 6 THEN 20
    ELSE IF skill < 8 THEN 10
    ELSE 5

\* mistake_chance, in hundredths
MistakeChance(skill) ==
    IF skill <= 2 THEN 50
    ELSE IF skill <= 4 THEN 35
    ELSE IF skill <= 6 THEN 20
    ELSE IF skill <= 8 THEN 10
    ELSE 5

\* the values random.random() is sampled at, in hundredths
RollSamples == {0, 5, 10, 20, 35, 50}

\* faulty variant: level 10 rolls too
SelectRollsAtTen(best_move, legal, skill) ==
    IF skill > 10
    THEN {[move |-> best_move, roll |-> 0 - 1, pool |-> <<>>]}
    ELSE LET mistake_chance == MistakeChance(skill)
         IN  {[move |-> legal[i], roll |-> r, pool |-> legal] :
                 i \in 1..Len(legal),
                 r \in {x \in RollSamples : x < mistake_chance}}
             \cup {[move |-> best_move, roll |-> r, pool |-> <<>>] :
                     r \in {x \in RollSamples : ~(x < mistake_chance)}}

\* faulty variant: the comparison of the roll is the wrong way round
SelectInverted(best_move, legal, skill) ==
    IF skill >= 10
    THEN {[move |-> best_move, roll |-> 0 - 1, pool |-> <<>>]}
    ELSE LET mistake_chance == MistakeChance(skill)
         IN  {[move |-> legal[i], roll |-> r, pool |-> legal] :
                 i \in 1..Len(legal),
                 r \in {x \in RollSamples : x >= mistake_chance}}
             \cup {[move |-> best_move, roll |-> r, pool |-> <<>>] :
                     r \in {x \in RollSamples : ~(x >= mistake_chance)}}

\* the moves the selection can return, each with the sample drawn (-1 when
\* none was) and the list random.choice drew from (<<>> when it drew nothing)
SelectMoveBySkill(best_move, legal, skill) ==
    IF skill >= 10
    THEN {[move |-> best_move, roll |-> 0 - 1, pool |-> <<>>]}
    ELSE LET mistake_chance == MistakeChance(skill)
         IN  {[move |-> legal[i], roll |-> r, pool |-> legal] :
                 i \in 1..Len(legal),
                 r \in {x \in RollSamples : x < mistake_chance}}
             \cup {[move |-> best_move, roll |-> r, pool |-> <<>>] :
                     r \in {x \in RollSamples : ~(x < mistake_chance)}}

----------------------------------------------------------------------------
(* ChessBoard.make_move *)

Files == {"a", "b", "c", "d", "e", "f", "g", "h"}

Ranks == {"1", "2", "3", "4", "5", "6", "7", "8"}

\* chess.Move.from_uci accepts the text (it raises ValueError otherwise)
WellFormedUci(t) ==
    /\ Len(t) \in {4, 5}
    /\ t[1] \in Files /\ t[2] \in Ranks /\ t[3] \in Files /\ t[4] \in Ranks
    /\ SubSeq(t, 1, 2) # SubSeq(t, 3, 4)
    /\ Len(t) = 5 => t[5] \in {"p", "n", "b", "r", "q", "k"}

Returned(success, error) == [success |-> success, error |-> error]

\* the boards and return values ChessBoard.make_move(move_uci) can end with
BoardMakeMove(b, move_uci) ==
    IF ~WellFormedUci(move_uci)
    THEN {[board |-> b, ret |-> Returned(FALSE, "Invalid move format")]}
    ELSE IF InList(move_uci, b.legal)
    THEN {[board |-> nb, ret |-> Returned(TRUE, "")] : nb \in Push(b, move_uci)}
    ELSE {[board |-> b, ret |-> Returned(FALSE, "Illegal move")]}

----------------------------------------------------------------------------
(* ComputerPlayer._filter_moves_by_skill, whole *)

\* every (scored_moves, returned list) the filter can end with
FilterMovesBySkill(legal, mover, player_color, skill) ==
    IF SeesAllMoves(skill, legal)
    THEN {[scored |-> <<>>, filtered |-> legal]}
    ELSE {[scored |-> SortDesc(s), filtered |-> Retained(SortDesc(s), skill)] :
             s \in Scorings(legal, mover, player_color, skill)}

----------------------------------------------------------------------------
(* ComputerPlayer._get_llm_move, from the call of the service on *)

\* faulty variant: the reply is parsed against the legal moves, not the filtered ones
GetLlmMoveParsesLegal(h, filtered, legal, skill) ==
    LET call == CallOllamaApi(h)
    IN  IF call.raised
        THEN {[raised |-> TRUE, response |-> call.response, move |-> <<>>,
               roll |-> 0 - 1, final |-> legal[i],
               draws |-> <<[site |-> "except", pool |-> legal]>>,
               stages |-> {}] : i \in 1..Len(legal)}
        ELSE UNION {
               {[raised |-> FALSE, response |-> call.response,
                 move |-> p.move, roll |-> c.roll, final |-> c.move,
                 draws |-> <<[site |-> "parse", pool |-> p.pool],
                             [site |-> "select", pool |-> c.pool]>>,
                 stages |-> {"parse", "select"}] :
                   c \in SelectMoveBySkill(p.move, legal, skill)} :
               p \in ParseLlmResponse(call.response, legal)}

\* Every way lines 51-63 can end once the service has done h: the call, the
\* parse against the filtered moves and the selection against the legal
\* moves, or, when the call raised, the handler's random legal move.
GetLlmMove(h, filtered, legal, skill) ==
    LET call == CallOllamaApi(h)
    IN  IF call.raised
        THEN {[raised |-> TRUE, response |-> call.response, move |-> <<>>,
               roll |-> 0 - 1, final |-> legal[i],
               draws |-> <<[site |-> "except", pool |-> legal]>>,
               stages |-> {}] : i \in 1..Len(legal)}
        ELSE UNION {
               {[raised |-> FALSE, response |-> call.response,
                 move |-> p.move, roll |-> c.roll, final |-> c.move,
                 draws |-> <<[site |-> "parse", pool |-> p.pool],
                             [site |-> "select", pool |-> c.pool]>>,
                 stages |-> {"parse", "select"}] :
                   c \in SelectMoveBySkill(p.move, legal, skill)} :
               p \in ParseLlmResponse(call.response, filtered)}

----------------------------------------------------------------------------
(* The state machine: one ComputerPlayer asked for one move *)

\* the skill levels a ComputerPlayer is constructed with
RequestedSkills == 0..11

NoPayload == [moves |-> <<>>, temperature |-> 0, top_p |-> 0]

NoHttp == [kind |-> "none", text |-> <<>>]

NotReturned == Returned(FALSE, "(not returned)")

\* no move is being evaluated
NoFrame == [score |-> 0, attackers |-> 0 - 1, penalised |-> FALSE]

\* An attribute set on the object at run time is <<value>>; Unset is the
\* attribute nothing has set (getattr gives its default).
Unset == <<>>

\* the application has answered no request yet
NoRequest == [route |-> "(none)", arg |-> <<>>, status |-> 0, error |-> "",
              value |-> <<>>]

Init ==
    /\ color \in {"white", "black"}
    /\ skill_level \in {ClampSkill(s) : s \in RequestedSkills}
    /\ board \in [turn : {color}, legal : LegalMoveLists, stack : {<<>>}]
    /\ pc = "idle"
    /\ legal_moves = <<>>
    /\ scored_moves = <<>>
    /\ filtered_moves = <<>>
    /\ payload = NoPayload
    /\ http = NoHttp
    /\ response = <<>>
    /\ raised = FALSE
    /\ move = <<>>
    /\ roll = 0 - 1
    /\ final_move = <<>>
    /\ draws = <<>>
    /\ invoked = {}
    /\ result = NotReturned
    /\ undo = <<>>
    /\ frame = NoFrame
    /\ learning_mode = Unset
    /\ hint_level = Unset
    /\ last = NoRequest

\* faulty variant: the empty list is not checked for and goes on to the filter
NoLegalMovesUnchecked ==
    /\ pc = "idle"
    /\ board.legal = <<>>
    /\ legal_moves' = board.legal
    /\ invoked' = invoked \cup {"filter"}
    /\ pc' = "filtered"
    /\ UNCHANGED <<color, skill_level, board, scored_moves, filtered_moves,
                   payload, http, response, raised, move, roll, final_move,
                   draws, result>>
    /\ UNCHANGED <<evalVars, appVars>>

\* make_move, lines 29-33: the board has no legal move
NoLegalMoves ==
    /\ pc = "idle"
    /\ board.legal = <<>>
    /\ legal_moves' = board.legal
    /\ result' = Returned(FALSE, "No legal moves available")
    /\ pc' = "done"
    /\ UNCHANGED <<color, skill_level, board, scored_moves, filtered_moves,
                   payload, http, response, raised, move, roll, final_move,
                   draws, invoked>>
    /\ UNCHANGED <<evalVars, appVars>>

\* make_move, lines 29-36, into _get_llm_move, line 45: the skill filter
FilterMoves ==
    /\ pc = "idle"
    /\ board.legal # <<>>
    /\ legal_moves' = board.legal
    /\ \E f \in FilterMovesBySkill(board.legal, board.turn, color, skill_level) :
          /\ scored_moves' = f.scored
          /\ filtered_moves' = f.filtered
    /\ invoked' = invoked \cup {"filter"}
    /\ pc' = "filtered"
    /\ UNCHANGED <<color, skill_level, board, payload, http, response, raised,
                   move, roll, final_move, draws, result>>
    /\ UNCHANGED <<evalVars, appVars>>

\* _get_llm_move, lines 48-51: the prompt is built and the request posted
PostRequest ==
    /\ pc = "filtered"
    /\ payload' = [moves |-> filtered_moves,
                   temperature |-> Temperature(skill_level),
                   top_p |-> TopP(skill_level)]
    /\ scored_moves' = <<>>
    /\ invoked' = invoked \cup {"prompt", "api"}
    /\ pc' = "waiting"
    /\ UNCHANGED <<color, skill_level, board, legal_moves, filtered_moves,
                   http, response, raised, move, roll, final_move, draws,
                   result>>
    /\ UNCHANGED <<evalVars, appVars>>

\* _get_llm_move, lines 51-63: the service answers or fails, and the rest
\* of _get_llm_move runs
ServiceResponds ==
    /\ pc = "waiting"
    /\ \E h \in HttpOutcomes :
       \E g \in GetLlmMove(h, filtered_moves, legal_moves, skill_level) :
          /\ http' = h
          /\ raised' = g.raised
          /\ response' = g.response
          /\ move' = g.move
          /\ roll' = g.roll
          /\ final_move' = g.final
          /\ draws' = g.draws
          /\ invoked' = invoked \cup g.stages
    /\ pc' = "selected"
    /\ UNCHANGED <<color, skill_level, board, legal_moves, scored_moves,
                   filtered_moves, payload, result>>
    /\ UNCHANGED <<evalVars, appVars>>

\* _get_llm_move, lines 59 and 63: it returns the move; its locals are gone
ReturnMove ==
    /\ pc = "selected"
    /\ pc' = "chosen"
    /\ filtered_moves' = <<>>
    /\ payload' = NoPayload
    /\ http' = NoHttp
    /\ response' = <<>>
    /\ raised' = FALSE
    /\ move' = <<>>
    /\ roll' = 0 - 1
    /\ draws' = <<>>
    /\ UNCHANGED <<color, skill_level, board, legal_moves, scored_moves,
                   final_move, invoked, result>>
    /\ UNCHANGED <<evalVars, appVars>>

\* make_move, line 39: the move is made on the board and make_move returns
ApplyMove ==
    /\ pc = "chosen"
    /\ \E m \in BoardMakeMove(board, final_move) :
          /\ board' = m.board
          /\ result' = m.ret
    /\ pc' = "done"
    /\ legal_moves' = <<>>
    /\ UNCHANGED <<color, skill_level, scored_moves, filtered_moves, payload,
                   http, response, raised, move, roll, final_move, draws,
                   invoked>>
    /\ UNCHANGED <<evalVars, appVars>>

Next ==
    \/ NoLegalMoves
    \/ FilterMoves
    \/ PostRequest
    \/ ServiceResponds
    \/ ReturnMove
    \/ ApplyMove

Spec == Init /\ [][Next]_vars

\* The steps the player takes by itself.  ServiceResponds is not one: it
\* needs the service to answer or the connection to fail, and the code sets
\* no timeout that would end the wait.
PlayerStep ==
    \/ NoLegalMoves
    \/ FilterMoves
    \/ PostRequest
    \/ ReturnMove
    \/ ApplyMove

----------------------------------------------------------------------------
(* The scoring loop of _filter_moves_by_skill, statement by statement *)

\* lines 254-258: the capture bonus
CaptureBonus(facts) ==
    IF facts.captured # "none" THEN PieceValue(facts.captured) * 10 ELSE 0

\* board.push(move) at line 261.  Of the position reached the evaluator
\* reads the check and checkmate flags and the attackers of the destination
\* square, which are the move's facts; of its legal moves the model keeps
\* that a checkmated side has none.
PushToEvaluate(b, m) ==
    {nb \in Push(b, m) :
        nb.legal = IF FactsOf(m).mate THEN <<>> ELSE <<a2a4>>}

\* line 278, on the pushed board b:
\* len(list(board.attackers(not board.turn, move.to_square)))
AttackersCounted(b, facts) ==
    AttackerCount(Other(b.turn), Other(b.turn), facts)

\* lines 264-297 on the pushed board b: the frame after the check, checkmate,
\* hanging-piece, centre and development terms; fifths is five times the
\* sample of random.uniform(0, 1)
Probe(fr, b, facts, player_color, skill, fifths) ==
    LET check == IF facts.check THEN 15 ELSE 0
        mate == IF facts.mate THEN 1000 ELSE 0
        piece_value == PieceValue(facts.piece)
        attackers == AttackersCounted(b, facts)
        hanging == IF attackers > 0
                   THEN (IF skill < 5 THEN piece_value * fifths
                         ELSE piece_value * 5)
                   ELSE 0
        center == IF ToSquare(facts.uci) \in CenterSquares THEN 8 ELSE 0
        from_rank == SquareRank(facts.uci[2])
        development ==
            IF player_color = "black" /\ from_rank = 7 THEN 5
            ELSE IF player_color = "white" /\ from_rank = 0 THEN 5
            ELSE 0
    IN  [score |-> fr.score + check + mate - hanging + center + development,
         attackers |-> attackers,
         penalised |-> attackers > 0]

\* the move the loop is at
CurrentMove == legal_moves[Len(scored_moves) + 1]

\* lines 197-206: the early returns, or the loop is entered
EnterFilter ==
    /\ pc = "idle"
    /\ board.legal # <<>>
    /\ legal_moves' = board.legal
    /\ IF SeesAllMoves(skill_level, board.legal)
       THEN /\ filtered_moves' = board.legal
            /\ pc' = "filtered"
       ELSE /\ filtered_moves' = filtered_moves
            /\ pc' = "loop"
    /\ UNCHANGED <<color, skill_level, board, scored_moves, payload, http,
                   response, raised, move, roll, final_move, draws, invoked,
                   result, evalVars, appVars>>

\* lines 207-210 and 241-258: the next move is parsed and _evaluate_move
\* starts with the base score and the capture bonus
BeginEvaluation ==
    /\ pc = "loop"
    /\ Len(scored_moves) < Len(legal_moves)
    /\ move' = CurrentMove
    /\ frame' = [score |-> 50 + CaptureBonus(FactsOf(CurrentMove)),
                 attackers |-> 0 - 1, penalised |-> FALSE]
    /\ pc' = "evaluating"
    /\ UNCHANGED <<color, skill_level, board, legal_moves, scored_moves,
                   filtered_moves, payload, http, response, raised, roll,
                   final_move, draws, invoked, result, undo, appVars>>

\* line 261: the move is pushed on the caller's board
PushMove ==
    /\ pc = "evaluating"
    /\ undo' = Append(undo, board)
    /\ board' \in PushToEvaluate(board, move)
    /\ pc' = "pushed"
    /\ UNCHANGED <<color, skill_level, legal_moves, scored_moves,
                   filtered_moves, payload, http, response, raised, move,
                   roll, final_move, draws, invoked, result, frame, appVars>>

\* lines 264-297: the pushed position is probed
ProbePosition ==
    /\ pc = "pushed"
    /\ \E fifths \in UniformFifths :
          /\ (skill_level >= 5
                \/ AttackersCounted(board, FactsOf(move)) = 0) => fifths = 0
          /\ frame' = Probe(frame, board, FactsOf(move), color, skill_level,
                            fifths)
    /\ pc' = "probed"
    /\ UNCHANGED <<color, skill_level, board, legal_moves, scored_moves,
                   filtered_moves, payload, http, response, raised, move,
                   roll, final_move, draws, invoked, result, undo, appVars>>

\* line 300: board.pop() restores the state the push saved
PopMove ==
    /\ pc = "probed"
    /\ board' = undo[Len(undo)]
    /\ undo' = SubSeq(undo, 1, Len(undo) - 1)
    /\ pc' = "popped"
    /\ UNCHANGED <<color, skill_level, legal_moves, scored_moves,
                   filtered_moves, payload, http, response, raised, move,
                   roll, final_move, draws, invoked, result, frame, appVars>>

\* lines 303-310 and 211: the noise is added and the score appended
AddRandomness ==
    /\ pc = "popped"
    /\ \E noise \in (IF skill_level < 5 THEN NoiseSamples(20)
                      ELSE IF skill_level < 8 THEN NoiseSamples(10)
                      ELSE {0}) :
          scored_moves' = Append(scored_moves,
                                 [move |-> move, score |-> frame.score + noise,
                                  failed |-> FALSE])
    /\ frame' = NoFrame
    /\ move' = <<>>
    /\ pc' = "loop"
    /\ UNCHANGED <<color, skill_level, board, legal_moves, filtered_moves,
                   payload, http, response, raised, roll, final_move, draws,
                   invoked, result, undo, appVars>>

\* lines 212-214: a statement of the try body raised -- parsing the move or
\* the start of the evaluation (pc "loop"), a call on the pushed board
\* (pc "pushed"), or the noise (pc "popped") -- and the handler appends the
\* neutral score.  Nothing else is done: the board stays as the raise found
\* it.
EvaluationRaises ==
    /\ pc \in {"loop", "pushed", "popped"}
    /\ Len(scored_moves) < Len(legal_moves)
    /\ scored_moves' = Append(scored_moves,
                              [move |-> CurrentMove, score |-> 50,
                               failed |-> TRUE])
    /\ frame' = NoFrame
    /\ move' = <<>>
    /\ pc' = "loop"
    /\ UNCHANGED <<color, skill_level, board, legal_moves, filtered_moves,
                   payload, http, response, raised, roll, final_move, draws,
                   invoked, result, undo, appVars>>

\* lines 217-234: the sort, and the top of the list is returned
SortAndKeep ==
    /\ pc = "loop"
    /\ Len(scored_moves) = Len(legal_moves)
    /\ scored_moves' = SortDesc(scored_moves)
    /\ filtered_moves' = Retained(SortDesc(scored_moves), skill_level)
    /\ pc' = "filtered"
    /\ UNCHANGED <<color, skill_level, board, legal_moves, payload, http,
                   response, raised, move, roll, final_move, draws, invoked,
                   result, evalVars, appVars>>

EvalNext ==
    \/ EnterFilter
    \/ BeginEvaluation
    \/ PushMove
    \/ ProbePosition
    \/ PopMove
    \/ AddRandomness
    \/ EvaluationRaises
    \/ SortAndKeep

\* one call of _filter_moves_by_skill, from the states make_move calls it in
EvalSpec == Init /\ [][EvalNext]_vars

----------------------------------------------------------------------------
(* The application: the routes of src/app.py over its module-level state *)

\* the most moves on the board when a move request is still taken
MaxPlies == 2

\* chess.Board(): the starting position
StartBoard == [turn |-> "white", legal |-> StartLegalMoves, stack |-> <<>>]

\* The legal-move lists of the positions a session of the model passes
\* through: a finished game, the list of the starting position, and a
\* position with a mate in one.
SessionLists == {<<>>, StartLegalMoves, <<h5f7, e2e4>>}

\* get_board_state()['is_game_over'].  board.is_game_over() holds with no
\* legal move (checkmate, stalemate); its other cases (insufficient
\* material, 75 moves, fivefold repetition) need more plies from the
\* starting position than a session of the model has.
IsGameOver(b) == b.legal = <<>>

\* the locals of ComputerPlayer.make_move, which no route leaves behind
playerLocals == <<pc, legal_moves, scored_moves, filtered_moves, payload,
                  http, response, raised, move, roll, final_move, draws,
                  invoked, result>>

\* the moves _get_llm_move can return for this legal-move list
GetLlmMoveFinals(legal, mover, player_color, skill) ==
    UNION { UNION { {g.final : g \in GetLlmMove(h, filtered, legal, skill)} :
                      h \in HttpOutcomes } :
              filtered \in {f.filtered : f \in FilterMovesBySkill(
                                 legal, mover, player_color, skill)} }

\* GetLlmMoveFinals, tabulated over the positions of a session
MovesComputed ==
    [l \in SessionLists \ {<<>>}, t \in {"white", "black"},
     c \in {"white", "black"}, s \in 1..10 |-> GetLlmMoveFinals(l, t, c, s)]

\* ComputerPlayer.make_move(board): the boards and return values it can end
\* with once the service has answered or failed, and the move it chose
ComputerMakeMove(b, player_color, skill) ==
    IF b.legal = <<>>
    THEN {[board |-> b, ret |-> Returned(FALSE, "No legal moves available"),
           move |-> <<>>]}
    ELSE UNION { {[board |-> r.board, ret |-> r.ret, move |-> m] :
                     r \in BoardMakeMove(b, m)} :
                   m \in MovesComputed[b.legal, b.turn, player_color, skill] }

\* the JSON of a request, field by field: a value has a type, and its
\* number (tenths for a float) or its text; "missing" is a key not sent
JsonInt(n) == [type |-> "int", num |-> n, text |-> <<>>]

JsonFloat(tenths) == [type |-> "float", num |-> tenths, text |-> <<>>]

JsonStr(s) == [type |-> "str", num |-> 0, text |-> s]

JsonNull == [type |-> "null", num |-> 0, text |-> <<>>]

JsonMissing == [type |-> "missing", num |-> 0, text |-> <<>>]

\* data.get(key, default)
Get(v, default) == IF v.type = "missing" THEN default ELSE v

Digits == <<"0", "1", "2", "3", "4", "5", "6", "7", "8", "9">>

DigitValue(ch) == (CHOOSE i \in 1..10 : Digits[i] = ch) - 1

RECURSIVE DecimalValue(_)
DecimalValue(s) ==
    IF s = <<>> THEN 0
    ELSE 10 * DecimalValue(SubSeq(s, 1, Len(s) - 1)) + DigitValue(s[Len(s)])

\* int(x): an int is itself, a float is truncated towards zero, a string
\* is stripped and read as an optional sign and decimal digits (ValueError
\* otherwise), None raises TypeError
PyInt(v) ==
    LET text == Strip(v.text)
        signed == text # <<>> /\ Head(text) \in {"-", "+"}
        digits == IF signed THEN Tail(text) ELSE text
        magnitude == DecimalValue(digits)
    IN  CASE v.type = "int" -> [ok |-> TRUE, num |-> v.num]
          [] v.type = "float" ->
                [ok |-> TRUE,
                 num |-> IF v.num >= 0 THEN v.num \div 10
                         ELSE 0 - ((0 - v.num) \div 10)]
          [] v.type = "str" ->
                IF digits # <<>> /\ \A i \in 1..Len(digits) :
                                       InList(digits[i], Digits)
                THEN [ok |-> TRUE,
                      num |-> IF signed /\ Head(text) = "-"
                              THEN 0 - magnitude ELSE magnitude]
                ELSE [ok |-> FALSE, num |-> 0]
          [] OTHER -> [ok |-> FALSE, num |-> 0]

\* what a route answered: the request's input, the HTTP status, the error
\* of the body (or the exception that went unhandled), and the data returned
Answer(route, arg, status, error, value) ==
    [route |-> route, arg |-> arg, status |-> status, error |-> error,
     value |-> value]

\* the move texts requests are modelled to send: two moves of the universe,
\* a well-formed move no position of the model allows, and a text that is
\* no move
MoveTexts == {e2e4, h5f7, <<"e", "2", "e", "5">>, <<"e", "2">>}

\* data.get('move'): a text, or None when the key is not sent
MoveArgs == {JsonStr(m) : m \in MoveTexts} \cup {JsonMissing}

\* HumanPlayer.make_move(board, move), which is board.make_move(move).  A
\* move that is no string makes chess.Move.from_uci raise TypeError, which
\* `except ValueError` does not catch.
HumanMakeMove(b, v) ==
    IF v.type = "str"
    THEN {[raised |-> FALSE, board |-> r.board, ret |-> r.ret] :
             r \in BoardMakeMove(b, v.text)}
    ELSE {[raised |-> TRUE, board |-> b, ret |-> Returned(FALSE, "TypeError")]}

\* what a /move request did: the human move, the position it led to,
\* whether computer_player.make_move was called, and the move that chose
Moves(human, reached, computed, computer) ==
    [human |-> human, reached |-> reached, computed |-> computed,
     computer |-> computer]

\* a /move request that made no move on b
NoMoves(b) == Moves(<<>>, b, FALSE, <<>>)

\* faulty variant: the computer moves whatever test_mode says
ComputerToMoveAlways(b, test_mode) == ~IsGameOver(b)

\* lines 68-76: the computer moves after the human move
ComputerToMove(b, test_mode) == ~IsGameOver(b) /\ ~test_mode

\* faulty variant: the computer is asked for a move although the human move
\* failed
MakeMoveIgnoresFailure ==
    \E v \in MoveArgs, test_mode \in BOOLEAN :
    \E h \in HumanMakeMove(board, v) :
    \E c \in ComputerMakeMove(h.board, color, skill_level) :
        /\ ~h.raised
        /\ ~h.ret.success
        /\ c.board.legal \in SessionLists
        /\ Len(board.stack) < MaxPlies
        /\ board' = c.board
        /\ last' = Answer("move", [move |-> v, test_mode |-> test_mode], 400,
                          h.ret.error, Moves(<<>>, h.board, TRUE, c.move))
        /\ UNCHANGED <<color, skill_level, learning_mode, hint_level,
                       playerLocals, evalVars>>

\* POST /move (make_move, lines 47-81)
MakeMove ==
    \E v \in MoveArgs, test_mode \in BOOLEAN :
    \E h \in HumanMakeMove(board, v) :
        LET arg == [move |-> v, test_mode |-> test_mode]
        IN  /\ h.board.legal \in SessionLists
            /\ \/ /\ h.raised
                  /\ board' = board
                  /\ last' = Answer("move", arg, 500, h.ret.error, NoMoves(board))
               \/ /\ ~h.raised
                  /\ ~h.ret.success
                  /\ board' = h.board
                  /\ last' = Answer("move", arg, 400, h.ret.error, NoMoves(board))
               \/ /\ ~h.raised
                  /\ h.ret.success
                  /\ Len(board.stack) < MaxPlies
                  /\ ~ComputerToMove(h.board, test_mode)
                  /\ board' = h.board
                  /\ last' = Answer("move", arg, 200, "",
                                    Moves(v.text, h.board, FALSE, <<>>))
               \/ /\ ~h.raised
                  /\ h.ret.success
                  /\ Len(board.stack) < MaxPlies
                  /\ ComputerToMove(h.board, test_mode)
                  /\ \E c \in ComputerMakeMove(h.board, color, skill_level) :
                        /\ c.board.legal \in SessionLists
                        /\ board' = c.board
                        /\ last' = Answer("move", arg, 200, c.ret.error,
                                          Moves(v.text, h.board, TRUE, c.move))
            /\ UNCHANGED <<color, skill_level, learning_mode, hint_level,
                           playerLocals, evalVars>>

\* POST /reset (reset_game, lines 83-93)
ResetGame ==
    /\ board' = StartBoard
    /\ last' = Answer("reset", JsonMissing, 200, "", <<>>)
    /\ UNCHANGED <<color, skill_level, learning_mode, hint_level,
                   playerLocals, evalVars>>

\* GET /skill-level (get_skill_level, lines 95-101)
GetSkillLevel ==
    /\ last' = Answer("get-skill-level", JsonMissing, 200, "", skill_level)
    /\ UNCHANGED <<color, skill_level, board, learning_mode, hint_level,
                   playerLocals, evalVars>>

\* the skill levels requests are modelled to send
SkillArgs ==
    {JsonInt(n) : n \in {0 - 1, 0, 1, 10, 11, 100}}
    \cup {JsonStr(<<"7">>), JsonStr(<<"a", "b", "c">>), JsonFloat(57),
          JsonNull, JsonMissing}

\* lines 111-116: int() accepts the value and it is in 1..10
SkillLevelValid(given) ==
    PyInt(given).ok /\ ~(PyInt(given).num < 1 \/ PyInt(given).num > 10)

\* POST /skill-level (set_skill_level, lines 103-127).  The accepted level
\* goes to a new ComputerPlayer, which replaces the old one with all that
\* was set on it.
SetSkillLevel ==
    \E v \in SkillArgs :
        LET given == Get(v, JsonInt(5))
        IN  IF SkillLevelValid(given)
            THEN /\ color' = "black"
                 /\ skill_level' = ClampSkill(PyInt(given).num)
                 /\ learning_mode' = Unset
                 /\ hint_level' = Unset
                 /\ last' = Answer("set-skill-level", v, 200, "",
                                   PyInt(given).num)
                 /\ UNCHANGED <<board, playerLocals, evalVars>>
            ELSE /\ last' = Answer("set-skill-level", v, 400,
                                   IF PyInt(given).ok
                                   THEN "Skill level must be between 1 and 10"
                                   ELSE "Invalid skill level format",
                                   0)
                 /\ UNCHANGED <<color, skill_level, board, learning_mode,
                                hint_level, playerLocals, evalVars>>

\* the members a ComputerPlayer has: what __init__ sets and the methods of
\* the class (src/player.py, lines 16-310)
ComputerPlayerAttributes ==
    {"color", "llm_url", "model", "skill_level", "make_move", "_get_llm_move",
     "_create_chess_prompt", "_call_ollama_api", "_parse_llm_response",
     "_select_move_by_skill", "_filter_moves_by_skill", "_evaluate_move"}

\* looking a member up on a ComputerPlayer: AttributeError when it has none
\* of that name
Lookup(name) ==
    IF name \in ComputerPlayerAttributes THEN "" ELSE "AttributeError"

\* getattr(computer_player, name, default) for an attribute set at run time
GetAttr(attr, default) == IF attr = Unset THEN default ELSE attr[1]

valid_levels == <<"basic", "intermediate", "advanced">>

\* the 'level' or 'hint_level' of a request: a text, or the key not sent
LevelArgs ==
    [given : {TRUE}, text : {"basic", "intermediate", "advanced", "expert"}]
    \cup {[given |-> FALSE, text |-> ""]}

\* data.get('level', 'basic')
LevelOf(a) == IF a.given THEN a.text ELSE "basic"

LevelError == "Hint level must be one of: basic, intermediate, advanced"

OutOfTurnError == "Hints are only available on your turn (White to move)"

\* what a hint request answers with when no hint was made
NoHint == [move |-> <<>>, category |-> ""]

\* faulty variant: a hint is asked for whoever is to move
HintOnAnyTurn(b) == TRUE

\* lines 141-143: board_state['turn'] is 'white'
HintOnTurn(b) == b.turn = "white"

\* POST /hint (get_hint, lines 129-152).  Line 147 calls get_hint on a
\* ComputerPlayer; the call ends the request with the unhandled
\* AttributeError.
GetHint ==
    \E a \in LevelArgs :
        /\ last' = IF ~InList(LevelOf(a), valid_levels)
                   THEN Answer("hint", a, 400, LevelError, NoHint)
                   ELSE IF ~HintOnTurn(board)
                   THEN Answer("hint", a, 400, OutOfTurnError, NoHint)
                   ELSE Answer("hint", a,
                               IF Lookup("get_hint") = "" THEN 200 ELSE 500,
                               Lookup("get_hint"), NoHint)
        /\ UNCHANGED <<color, skill_level, board, learning_mode, hint_level,
                       playerLocals, evalVars>>

\* GET /learning-mode (get_learning_mode, lines 154-160)
GetLearningMode ==
    /\ last' = Answer("get-learning-mode", JsonMissing, 200, "",
                      [enabled |-> GetAttr(learning_mode, FALSE),
                       hint_level |-> GetAttr(hint_level, "basic")])
    /\ UNCHANGED <<color, skill_level, board, learning_mode, hint_level,
                   playerLocals, evalVars>>

\* the 'enabled' of a request: true, false, or the key not sent
EnabledArgs == {<<>>, <<TRUE>>, <<FALSE>>}

\* POST /learning-mode (set_learning_mode, lines 162-186)
SetLearningMode ==
    \E e \in EnabledArgs, a \in LevelArgs :
        LET arg == [enabled |-> e, hint_level |-> a]
            enabled == GetAttr(e, FALSE)
        IN  IF ~InList(LevelOf(a), valid_levels)
            THEN /\ last' = Answer("set-learning-mode", arg, 400, LevelError,
                                   [enabled |-> FALSE, hint_level |-> ""])
                 /\ UNCHANGED <<color, skill_level, board, learning_mode,
                                hint_level, playerLocals, evalVars>>
            ELSE /\ learning_mode' = <<enabled>>
                 /\ hint_level' = <<LevelOf(a)>>
                 /\ last' = Answer("set-learning-mode", arg, 200, "",
                                   [enabled |-> enabled,
                                    hint_level |-> LevelOf(a)])
                 /\ UNCHANGED <<color, skill_level, board, playerLocals,
                                evalVars>>

\* lines 12-14: chess_board = ChessBoard(), and
\* computer_player = ComputerPlayer('black', skill_level=5)
AppInit ==
    /\ color = "black"
    /\ skill_level = ClampSkill(5)
    /\ board = StartBoard
    /\ pc = "idle"
    /\ legal_moves = <<>>
    /\ scored_moves = <<>>
    /\ filtered_moves = <<>>
    /\ payload = NoPayload
    /\ http = NoHttp
    /\ response = <<>>
    /\ raised = FALSE
    /\ move = <<>>
    /\ roll = 0 - 1
    /\ final_move = <<>>
    /\ draws = <<>>
    /\ invoked = {}
    /\ result = NotReturned
    /\ undo = <<>>
    /\ frame = NoFrame
    /\ learning_mode = Unset
    /\ hint_level = Unset
    /\ last = NoRequest

AppNext ==
    \/ MakeMove
    \/ ResetGame
    \/ GetSkillLevel
    \/ SetSkillLevel
    \/ GetHint
    \/ GetLearningMode
    \/ SetLearningMode

\* the requests of a session, one after the other (the server is run
\* single-threaded for the model)
AppSpec == AppInit /\ [][AppNext]_vars

----------------------------------------------------------------------------
(* Claims *)

resign == <<"r", "e", "s", "i", "g", "n">>

\* C1: at every skill level and for every position with a legal move, the
\* move _get_llm_move returns is one of the position's legal moves, whatever
\* the service did and whatever was drawn; the board then accepts it.
C1_MoveIsLegal ==
    /\ pc \in {"selected", "chosen"} =>
          /\ legal_moves = board.legal
          /\ InList(final_move, legal_moves)
    /\ (pc = "done" /\ invoked # {}) =>
          /\ result = Returned(TRUE, "")
          /\ board.stack = <<final_move>>

\* a reply naming no move was answered by a random candidate, and the
\* mistake roll replaced that by a random legal move
C1_Witness ==
    /\ pc = "selected"
    /\ response = resign
    /\ draws[1].pool # <<>>
    /\ draws[2].pool # <<>>
    /\ InList(final_move, legal_moves)

\* C2, as claimed: whatever the service does, the call and the parse return
\* a legal move and nothing is raised into _get_llm_move.
C2_NeverRaises ==
    pc = "selected" => (~raised /\ InList(move, legal_moves))

\* C2, amended: a connection error, an HTTP error status and any reply text
\* are answered inside the call and the parse by a candidate move, with
\* nothing raised; a JSON body without the 'response' field (and a body that
\* is not JSON, where response.json() raises a plain ValueError) raises out
\* of _call_ollama_api, no move is parsed, and the handler of _get_llm_move
\* answers with a random legal move.
C2_RecoveredWhere ==
    pc = "selected" =>
        /\ http.kind \in {"connection_error", "http_error", "ok",
                          "not_json_request_exception"} =>
              /\ ~raised
              /\ InList(move, filtered_moves)
              /\ InList(move, legal_moves)
        /\ http.kind \in {"no_response_field", "not_json_value_error"} =>
              /\ raised
              /\ move = <<>>
              /\ draws = <<[site |-> "except", pool |-> legal_moves]>>
              /\ InList(final_move, legal_moves)

\* the reply had no 'response' field and the handler of _get_llm_move chose
C2_Witness ==
    /\ pc = "selected"
    /\ http.kind = "no_response_field"
    /\ raised
    /\ InList(final_move, legal_moves)

\* C3: every computation of a computer move terminates, with a legal move
\* made or with the no-legal-moves error, also when the service is slow or
\* never answers, because the wait for the service is bounded by a timeout:
\* while the request is posted, the player can take its next step without
\* the service.
C3_Terminates == pc = "waiting" => ENABLED PlayerStep

\* C4, as claimed: when the parse falls back to a random move (the sentinel,
\* or a reply naming no candidate) it draws from the full legal-move list.
C4_FallbackFromLegal ==
    (pc = "selected" /\ ~raised /\ draws[1].pool # <<>>) =>
        draws[1].pool = legal_moves

\* C4, amended: on the sentinel and on a reply that names no candidate the
\* parse draws from the filtered candidate list it was given, so its move is
\* a candidate and never a legal move the Skill Filter removed; in every
\* other case it draws nothing.
C4_FallbackFromCandidates ==
    (pc = "selected" /\ ~raised) =>
        LET fallback ==
                \/ response = FALLBACK_RANDOM_MOVE
                \/ \A i \in 1..Len(filtered_moves) :
                      ~Contains(Strip(response), filtered_moves[i])
        IN  /\ fallback => /\ draws[1].pool = filtered_moves
                           /\ InList(move, filtered_moves)
            /\ ~fallback => draws[1].pool = <<>>

\* the service failed, the sentinel was parsed, and the filter had removed
\* a legal move
C4_Witness ==
    /\ pc = "selected"
    /\ http.kind = "connection_error"
    /\ response = FALLBACK_RANDOM_MOVE
    /\ Len(filtered_moves) < Len(legal_moves)
    /\ draws[1].pool = filtered_moves

\* C5: at skill level 10 the filter passes the whole legal-move list and the
\* selection returns the parsed suggestion unchanged, with no roll drawn.
C5_MasterPlaysSuggestion ==
    (pc = "selected" /\ skill_level = 10 /\ ~raised) =>
        /\ filtered_moves = legal_moves
        /\ final_move = move
        /\ roll = 0 - 1
        /\ draws[2].pool = <<>>

\* level 10, more than three legal moves, a suggestion parsed from a reply
C5_Witness ==
    /\ pc = "selected"
    /\ skill_level = 10
    /\ Len(legal_moves) > 3
    /\ http.kind = "ok"
    /\ final_move = move

\* the scenario of C6: the starting position's moves, level 5, the service
\* answering "e2e4", and a roll that is no mistake at level 5
C6_Scenario ==
    /\ pc = "selected"
    /\ skill_level = 5
    /\ legal_moves = StartLegalMoves
    /\ http = [kind |-> "ok", text |-> e2e4 \o <<"\n">>]
    /\ roll >= 20

\* C6, as claimed: in the scenario the move returned is e2e4, however the
\* filter's noisy scoring went.
C6_ReturnsE2E4 == C6_Scenario => final_move = e2e4

\* C6, amended: in the scenario the move returned is e2e4 exactly when the
\* filter kept e2e4 among the candidates; when its scoring ranked e2e4 out,
\* the reply names no candidate and the move returned is a random candidate,
\* not e2e4.
C6_ReturnsE2E4IfKept ==
    C6_Scenario =>
        /\ InList(e2e4, filtered_moves) => final_move = e2e4
        /\ ~InList(e2e4, filtered_moves) =>
              /\ InList(final_move, filtered_moves)
              /\ final_move # e2e4
              /\ draws[1].pool = filtered_moves

\* the scenario, with e2e4 filtered out
C6_Witness == C6_Scenario /\ ~InList(e2e4, filtered_moves)

\* C7: for a non-empty legal-move list the filter returns a non-empty list
\* of at least min(3, |legal moves|) moves, all of them legal moves, none
\* twice, whatever the scores, the noise and the failed evaluations were.
C7_FilterKeepsEnough ==
    pc = "filtered" =>
        /\ filtered_moves # <<>>
        /\ Range(filtered_moves) \subseteq Range(legal_moves)
        /\ Len(filtered_moves) >= Min(3, Len(legal_moves))
        /\ Cardinality(Range(filtered_moves)) = Len(filtered_moves)

\* the filter removed a move after an evaluation had failed
C7_Witness ==
    /\ pc = "filtered"
    /\ Len(filtered_moves) < Len(legal_moves)
    /\ \E i \in 1..Len(scored_moves) : scored_moves[i].failed

C9_Chance ==
    CASE skill_level <= 2 -> 50
      [] skill_level \in {3, 4} -> 35
      [] skill_level \in {5, 6} -> 20
      [] skill_level \in {7, 8} -> 10
      [] OTHER -> 5

\* C9: below level 10 the selection draws one sample r and compares it with
\* the step table; with r >= chance it returns the suggested move, with
\* r < chance a random move of the full legal-move list; so what it returns
\* is a legal move whenever the suggested move is.
C9_MistakeInjector ==
    (pc = "selected" /\ ~raised /\ skill_level < 10) =>
        /\ roll \in 0..99
        /\ roll >= C9_Chance => /\ final_move = move
                                /\ draws[2].pool = <<>>
        /\ roll < C9_Chance => /\ draws[2].pool = legal_moves
                               /\ InList(final_move, legal_moves)
        /\ InList(move, legal_moves) => InList(final_move, legal_moves)

\* level 9, the lowest roll: a mistake that changed the move
C9_Witness ==
    /\ pc = "selected"
    /\ skill_level = 9
    /\ roll = 0
    /\ final_move # move
    /\ ~raised

\* C10: with no legal move make_move returns the 'No legal moves available'
\* error at once: no filter, no request to the service, no parse and no
\* selection, and the board is as it was.
C10_FailsFast ==
    [][(pc = "idle" /\ board.legal = <<>>) =>
          /\ pc' = "done"
          /\ result' = Returned(FALSE, "No legal moves available")
          /\ invoked' = {}
          /\ payload' = NoPayload
          /\ http' = NoHttp
          /\ draws' = <<>>
          /\ board' = board]_vars

\* make_move has returned the error
C10_Witness ==
    /\ pc = "done"
    /\ result = Returned(FALSE, "No legal moves available")
    /\ invoked = {}
    /\ board.legal = <<>>
    /\ board.stack = <<>>

\* C18: a reply that is not the sentinel is resolved in a fixed order.  With
\* its whitespace trimmed, a reply equal to a candidate gives that candidate;
\* otherwise the first candidate, in the order of the candidate list, that
\* occurs in the reply is returned; a random candidate is drawn only when no
\* candidate occurs in the reply.  A matched move is a candidate.
C18_ParseOrder ==
    (pc = "selected" /\ http.kind = "ok"
        /\ Strip(http.text) # FALLBACK_RANDOM_MOVE) =>
        LET text == Strip(http.text)
            exact == {i \in 1..Len(filtered_moves) : filtered_moves[i] = text}
            inside == {i \in 1..Len(filtered_moves) :
                          Contains(text, filtered_moves[i])}
            first == CHOOSE i \in inside : \A j \in inside : i <= j
        IN  /\ ~raised
            /\ exact # {} => /\ move = text
                             /\ draws[1].pool = <<>>
            /\ (exact = {} /\ inside # {}) =>
                  /\ move = filtered_moves[first]
                  /\ draws[1].pool = <<>>
            /\ inside # {} => InList(move, filtered_moves)
            /\ inside = {} => /\ draws[1].pool = filtered_moves
                              /\ InList(move, filtered_moves)

\* the reply "a2a4 or a2a3" with both moves candidates and a2a3 the earlier
\* one in the candidate list: a2a3 is the move, though the reply names it last
C18_Witness ==
    /\ pc = "selected"
    /\ http = [kind |-> "ok", text |-> a2a4 \o <<" ", "o", "r", " ">> \o a2a3]
    /\ InList(a2a3, filtered_moves)
    /\ InList(a2a4, filtered_moves)
    /\ move = a2a3
    /\ draws[1].pool = <<>>

\* the retained fraction of C19, in hundredths
C19_Fraction(skill) ==
    CASE skill <= 3 -> 40
      [] skill \in {4, 5, 6} -> 65
      [] OTHER -> 80

\* C19: when the filter does filter (skill <= 7, more than three legal
\* moves) it retains exactly max(3, floor(fraction x total)) moves, and they
\* are the top-scored ones of that pass: every legal move was scored once,
\* and no discarded move scored higher than a retained one.  Before any
\* move is asked for, the count is also compared for lists longer than the
\* positions of the model have.
C19_KeepsTop ==
    /\ (pc = "filtered" /\ skill_level <= 7 /\ Len(legal_moves) > 3) =>
          LET n == Len(legal_moves)
              kept == Range(filtered_moves)
          IN  /\ Len(filtered_moves)
                    = Max(3, (C19_Fraction(skill_level) * n) \div 100)
              /\ Cardinality(kept) = Len(filtered_moves)
              /\ Len(scored_moves) = n
              /\ {scored_moves[i].move : i \in 1..n} = Range(legal_moves)
              /\ \A i, j \in 1..n :
                    (scored_moves[i].move \in kept
                        /\ scored_moves[j].move \notin kept)
                    => scored_moves[i].score >= scored_moves[j].score
    /\ pc = "idle" =>
          \A n \in 4..LongestCounted : \A s \in 1..7 :
              NumMovesToKeep(n, s) = Max(3, (C19_Fraction(s) * n) \div 100)

\* level 2: four moves scored, the lowest one discarded after a noise draw
\* had put it below a move the legal-move list has after it
C19_Witness ==
    /\ pc = "filtered"
    /\ skill_level = 2
    /\ Len(legal_moves) = 4
    /\ Len(filtered_moves) = 3
    /\ filtered_moves[1] = legal_moves[4]
    /\ ~InList(legal_moves[1], filtered_moves)
    /\ \A i \in 1..4 : ~scored_moves[i].failed

\* C16: the evaluator does not mutate the caller's position.  Between two
\* evaluations of the scoring loop, and when the filter returns -- also after
\* evaluations that raised and were given the neutral score 50 -- the board
\* (pieces and legal moves, side to move, move history) is the board the
\* filter was called with.
C16_PositionRestored ==
    pc \in {"loop", "filtered"} =>
        board = [turn |-> color, legal |-> legal_moves, stack |-> <<>>]

\* C17: the hanging-piece penalty is subtracted exactly when the moved
\* piece, on its destination square, is attacked by at least one piece of the
\* opponent, the side that did not make the move; pieces of the mover's own
\* side that cover the square never cause it.  Stated for a move evaluated
\* on the position the filter was called with.
C17_PenaltyIffAttacked ==
    (pc = "probed" /\ Len(undo) = 1 /\ undo[1].stack = <<>>) =>
        (frame.penalised <=> FactsOf(move).attackers > 0)

\* C11: a move request whose move is malformed, or well-formed but not a
\* legal move of the position, is answered with an error (400 and the
\* board's error; a request without a move ends in the unhandled TypeError,
\* 500), leaves the board as it was, and computer_player.make_move is not
\* called.
C11_RejectedMoveChangesNothing ==
    [][(/\ last'.route = "move"
        /\ \/ last'.arg.move.type # "str"
           \/ ~WellFormedUci(last'.arg.move.text)
           \/ ~InList(last'.arg.move.text, board.legal))
       => /\ last'.status = (IF last'.arg.move.type = "str" THEN 400 ELSE 500)
          /\ last'.error = (IF last'.arg.move.type # "str" THEN "TypeError"
                            ELSE IF ~WellFormedUci(last'.arg.move.text)
                            THEN "Invalid move format"
                            ELSE "Illegal move")
          /\ board' = board
          /\ ~last'.value.computed]_vars

\* a well-formed move that is not legal was refused after a move had been
\* played, and the two moves played are still the whole game
C11_Witness ==
    /\ last.route = "move"
    /\ last.arg.move.text = <<"e", "2", "e", "5">>
    /\ last.status = 400
    /\ last.error = "Illegal move"
    /\ Len(board.stack) = 2
    /\ ~last.value.computed

\* C12: the stored skill level is an integer from 1 to 10 after every
\* request; a rejected skill-level request leaves it as it was; an accepted
\* one stores the number that was sent, which a read returns and no other
\* route changes.
C12_SkillLevelStored ==
    [][/\ skill_level' \in 1..10
       /\ last'.route # "set-skill-level" => skill_level' = skill_level
       /\ last'.route = "get-skill-level" => last'.value = skill_level
       /\ (last'.route = "set-skill-level" /\ last'.status # 200) =>
              skill_level' = skill_level
       /\ (last'.route = "set-skill-level" /\ last'.status = 200) =>
              LET sent == Get(last'.arg, JsonInt(5))
                  tenths == IF sent.type = "float" THEN sent.num
                            ELSE 10 * PyInt(sent).num
              IN  10 * skill_level' = tenths]_vars

\* C13: a hint request with a valid level made when Black is to move is
\* answered 400 with the out-of-turn error, and the board is as it was.
C13_HintOutOfTurn ==
    [][(/\ last'.route = "hint"
        /\ InList(LevelOf(last'.arg), valid_levels)
        /\ board.turn # "white")
       => /\ last'.status = 400
          /\ last'.error = OutOfTurnError
          /\ board' = board]_vars

\* a hint was refused with Black to move after a human move in test mode
C13_Witness ==
    /\ last.route = "hint"
    /\ last.arg.text = "advanced"
    /\ last.status = 400
    /\ last.error = OutOfTurnError
    /\ board.turn = "black"
    /\ board.stack = <<e2e4>>

\* C14: a hint request with a valid level, made with White to move in a
\* position that is not over, is answered 200 with a hint whose move is a
\* legal move of the position and whose category is one of the eight
\* categories, and the board is as it was.
C14_HintSucceeds ==
    [][(/\ last'.route = "hint"
        /\ InList(LevelOf(last'.arg), valid_levels)
        /\ board.turn = "white"
        /\ ~IsGameOver(board))
       => /\ last'.status = 200
          /\ InList(last'.value.move, board.legal)
          /\ last'.value.category \in
                {"checkmate", "check", "capture", "castling", "promotion",
                 "center", "development", "general"}
          /\ board' = board]_vars

\* C15: the hint's category follows from the recommended move by the
\* priority of the categories: a hint on the starting position is a
\* development or center hint, and a hint that recommends a mate in one is
\* a checkmate hint, whatever the hint level.
C15_HintCategory ==
    [][(/\ last'.route = "hint"
        /\ InList(LevelOf(last'.arg), valid_levels)
        /\ board.turn = "white")
       => /\ board = StartBoard =>
                last'.value.category \in {"development", "center"}
          /\ (last'.value.move # <<>> /\ FactsOf(last'.value.move).mate) =>
                last'.value.category = "checkmate"]_vars

C22_ComputerMovesOwnColour ==
    [][(last'.route = "move" /\ last'.value.computed) =>
           /\ color = "black"
           /\ last'.value.reached.turn = color
           /\ board.turn = "white"]_vars

\* C23: what a read of the learning-mode settings returns is the enabled
\* flag and hint level of the last accepted update, or disabled and basic
\* when there was none: an accepted update sets both to what was sent, a
\* rejected update and every other request (skill level, reset, move, hint)
\* leave them as they were, and a read returns them.
C23_LearningModeDurable ==
    [][LET enabled == GetAttr(learning_mode, FALSE)
           level == GetAttr(hint_level, "basic")
           accepted == last'.route = "set-learning-mode" /\ last'.status = 200
       IN  /\ accepted =>
                 /\ GetAttr(learning_mode', FALSE)
                       = GetAttr(last'.arg.enabled, FALSE)
                 /\ GetAttr(hint_level', "basic")
                       = LevelOf(last'.arg.hint_level)
           /\ ~accepted =>
                 /\ GetAttr(learning_mode', FALSE) = enabled
                 /\ GetAttr(hint_level', "basic") = level
           /\ last'.route = "get-learning-mode" =>
                 last'.value = [enabled |-> enabled, hint_level |-> level]]_vars

====
